---------------------------- MODULE Spec2Model ----------------------------
(***************************************************************************)
(* Model of smartmon_exporter.py: a Prometheus collector that, on every    *)
(* scrape, runs smartctl for its version, for the device scan and once per *)
(* enumerated device, and maps the JSON it prints onto metric families.    *)
(*                                                                         *)
(* JSON objects are functions with string domains, JSON arrays are         *)
(* sequences, Python strings that the code formats or parses are sequences *)
(* of one-character strings, and a Python exception is the value Raise.    *)
(* Metric values are exact fractions [num, den] (Python int x is x/1).     *)
(***************************************************************************)
EXTENDS Integers, Sequences, FiniteSets, TLC

\* ------------------------------------------------------------- bounds
\* Longest device list the scan reports.
MaxDevices == 2

\* The collect() generators that may be live at once: the HTTP server
\* handles each request on a thread of its own, so two scrapes can overlap.
Scrapes == {1, 2}

\* ------------------------------------------------- Python-level helpers
\* The outcome of an expression that raised.
Raise == [ok |-> FALSE]
Ret(v) == [ok |-> TRUE, v |-> v]

\* Exact value of a Python number.
RECURSIVE Gcd(_, _)
Gcd(a, b) == IF b = 0 THEN a ELSE Gcd(b, a % b)
Frac(n, d) == LET g == Gcd(IF n < 0 THEN -n ELSE n, d)
              IN  IF n = 0 THEN [num |-> 0, den |-> 1]
                  ELSE [num |-> n \div g, den |-> d \div g]
Num(x) == Frac(x, 1)

Digits == <<"0", "1", "2", "3", "4", "5", "6", "7", "8", "9",
            "a", "b", "c", "d", "e", "f">>

\* format(n, 'x') and str(n) for n >= 0: the digits of n in the base.
RECURSIVE ToBase(_, _)
ToBase(n, base) == IF n < base THEN <<Digits[n + 1]>>
                   ELSE ToBase(n \div base, base) \o <<Digits[(n % base) + 1]>>

\* The zero padding of a '{:0Wx}' field.
RECURSIVE ZeroPad(_, _)
ZeroPad(s, width) == IF Len(s) >= width THEN s ELSE ZeroPad(<<"0">> \o s, width)

\* sep.join(parts)
RECURSIVE Join(_, _)
Join(sep, parts) == IF parts = <<>> THEN <<>>
                    ELSE IF Len(parts) = 1 THEN parts[1]
                    ELSE parts[1] \o sep \o Join(sep, Tail(parts))

\* '{:x} {:06x} {:09x}'.format(naa, oui, id)
FormatWwn(naa, oui, id) ==
    ToBase(naa, 16) \o <<" ">> \o ZeroPad(ToBase(oui, 16), 6)
                    \o <<" ">> \o ZeroPad(ToBase(id, 16), 9)

\* x.split()[0]: the first whitespace-delimited token; IndexError when the
\* string holds no token.
RECURSIVE SkipSpaces(_)
SkipSpaces(s) == IF s # <<>> /\ s[1] = " " THEN SkipSpaces(Tail(s)) ELSE s
RECURSIVE TakeToken(_)
TakeToken(s) == IF s = <<>> \/ s[1] = " " THEN <<>>
                ELSE <<s[1]>> \o TakeToken(Tail(s))
FirstToken(s) == LET t == TakeToken(SkipSpaces(s))
                 IN  IF t = <<>> THEN Raise ELSE Ret(t)

\* float(tok) for the tokens smartctl prints in a raw string: an unsigned
\* decimal integer parses to its value, a token with any other character
\* (of the ones drawn here: letters, brackets) raises ValueError.
DecDigit(c) == CHOOSE k \in 0..9 : Digits[k + 1] = c
IsDecDigit(c) == \E k \in 0..9 : Digits[k + 1] = c
RECURSIVE DecValue(_, _)
DecValue(tok, acc) == IF tok = <<>> THEN acc
                      ELSE DecValue(Tail(tok), acc * 10 + DecDigit(tok[1]))
Float(tok) == IF tok # <<>> /\ \A k \in 1..Len(tok) : IsDecDigit(tok[k])
              THEN Ret(Num(DecValue(tok, 0)))
              ELSE Raise

\* Mutant: a data unit is taken for 1024*512 bytes.
TransformKibi(t, x) ==
    CASE t = "int"                      -> Ret(Num(IF x THEN 1 ELSE 0))
      [] t = "identity"                 -> Ret(Num(x))
      [] t = "100-x"                    -> Ret(Num(100 - x))
      [] t = "float(x.split()[0])"      -> LET tok == FirstToken(x)
                                           IN  IF tok.ok THEN Float(tok.v) ELSE Raise
      [] t = "x/100"                    -> Ret(Frac(x, 100))
      [] t = "x*1000*512"               -> Ret(Num(x * 1024 * 512))

\* The transforms of the mapping tables, by the expression that defines them.
Transform(t, x) ==
    CASE t = "int"                      -> Ret(Num(IF x THEN 1 ELSE 0))
      [] t = "identity"                 -> Ret(Num(x))
      [] t = "100-x"                    -> Ret(Num(100 - x))
      [] t = "float(x.split()[0])"      -> LET tok == FirstToken(x)
                                           IN  IF tok.ok THEN Float(tok.v) ELSE Raise
      [] t = "x/100"                    -> Ret(Frac(x, 100))
      [] t = "x*1000*512"               -> Ret(Num(x * 1000 * 512))

\* operator.getitem along a path; KeyError when a key is absent.
RECURSIVE dig(_, _)
dig(data, path) ==
    IF path = <<>> THEN Ret(data)
    ELSE IF path[1] \in DOMAIN data THEN dig(data[path[1]], Tail(path))
    ELSE Raise

\* ------------------------------------------------------ mapping tables
\* A metric family object as the constructors build it: name, type and
\* label names; its samples live in the heap (see EmptyFamilies).
Family(type, name) == [name |-> name, type |-> type, labelnames |-> <<"device">>]

\* gen_metrics(): (metric, path, transform)
gen_metrics ==
    << [m |-> Family("gauge", "smartmon_smart_healthy"),
        path |-> <<"smart_status", "passed">>, transform |-> "int"] >>

\* The keys of attrs in gen_attr_metrics(), in insertion order.
AttrOrder == <<4, 5, 9, 10, 12, 187, 188, 190, 193, 194, 196, 197, 198>>
AttrIds == {AttrOrder[k] : k \in 1..Len(AttrOrder)}

RawValue == <<"raw", "value">>
attrs(id) ==
    CASE id = 4   -> [name |-> "starts_stops_total", type |-> "counter", path |-> RawValue]
      [] id = 5   -> [name |-> "reallocated_sectors_total", type |-> "counter", path |-> RawValue]
      [] id = 9   -> [name |-> "power_on_hours", type |-> "counter", path |-> RawValue]
      [] id = 10  -> [name |-> "spin_retries_total", type |-> "counter", path |-> RawValue]
      [] id = 12  -> [name |-> "power_cycles_total", type |-> "counter", path |-> RawValue]
      [] id = 187 -> [name |-> "reported_uncorrectable_errors_total", type |-> "counter", path |-> RawValue]
      [] id = 188 -> [name |-> "command_timeouts_total", type |-> "counter", path |-> RawValue]
      [] id = 190 -> [name |-> "airflow_temperature_celsius", type |-> "gauge",
                      path |-> <<"value">>, transform |-> "100-x"]
      [] id = 193 -> [name |-> "load_cycles_total", type |-> "counter", path |-> RawValue]
      [] id = 194 -> [name |-> "temperature_celsius", type |-> "gauge",
                      path |-> <<"raw", "string">>, transform |-> "float(x.split()[0])"]
      [] id = 196 -> [name |-> "reallocated_events_total", type |-> "counter", path |-> RawValue]
      [] id = 197 -> [name |-> "current_pending_sectors", type |-> "gauge", path |-> RawValue]
      [] id = 198 -> [name |-> "offline_uncorrectable_sectors_total", type |-> "counter", path |-> RawValue]

\* gen_attr_metrics(): id -> (metric, path, transform), transform defaulting
\* to the identity.
gen_attr_metrics ==
    [id \in AttrIds |->
        LET a == attrs(id)
        IN  [m |-> Family(a.type, "smartmon_" \o a.name),
             path |-> a.path,
             transform |-> IF "transform" \in DOMAIN a THEN a.transform ELSE "identity"]]

\* The rows of nvme_metrics in gen_nvme_metrics().
nvme_rows ==
    << [name |-> "temperature_celsius", type |-> "gauge", key |-> "temperature", transform |-> "identity"],
       [name |-> "nvme_available_spare_ratio", type |-> "gauge", key |-> "available_spare", transform |-> "x/100"],
       [name |-> "nvme_available_spare_threshold_ratio", type |-> "gauge", key |-> "available_spare_threshold", transform |-> "x/100"],
       [name |-> "nvme_used_ratio", type |-> "gauge", key |-> "percentage_used", transform |-> "x/100"],
       [name |-> "nvme_data_units_read_bytes", type |-> "counter", key |-> "data_units_read", transform |-> "x*1000*512"],
       [name |-> "nvme_data_units_written_bytes", type |-> "counter", key |-> "data_units_written", transform |-> "x*1000*512"],
       [name |-> "nvme_host_reads", type |-> "counter", key |-> "host_reads", transform |-> "identity"],
       [name |-> "nvme_host_writes", type |-> "counter", key |-> "host_writes", transform |-> "identity"],
       [name |-> "nvme_controller_busy_time", type |-> "counter", key |-> "controller_busy_time", transform |-> "identity"],
       [name |-> "power_cycles_total", type |-> "counter", key |-> "power_cycles", transform |-> "identity"],
       [name |-> "power_on_hours", type |-> "counter", key |-> "power_on_hours", transform |-> "identity"],
       [name |-> "nvme_unsafe_shutdowns", type |-> "counter", key |-> "unsafe_shutdowns", transform |-> "identity"],
       [name |-> "nvme_media_errors", type |-> "counter", key |-> "media_errors", transform |-> "identity"],
       [name |-> "nvme_num_err_log_entries", type |-> "counter", key |-> "num_err_log_entries", transform |-> "identity"] >>

\* gen_nvme_metrics(): [metric, key, transform] per row, in row order.
gen_nvme_metrics ==
    [k \in 1..Len(nvme_rows) |->
        [m |-> Family(nvme_rows[k].type, "smartmon_" \o nvme_rows[k].name),
         key |-> nvme_rows[k].key,
         transform |-> nvme_rows[k].transform]]

\* The sample lists of the family objects one collect() call constructs:
\* dev_info_metric and one object per row of the three tables, all empty.
EmptyFamilies ==
    [info |-> <<>>,
     gen  |-> [k \in 1..Len(gen_metrics) |-> <<>>],
     attr |-> [id \in AttrIds |-> <<>>],
     nvme |-> [k \in 1..Len(nvme_rows) |-> <<>>]]

\* m.add_metric([dev], value): one sample labelled by zip(labelnames, [dev]).
\* entry is not program state: it records which iteration of the device
\* loop added the sample.
add_metric(m, dev, value, entry) ==
    [labels |-> [device |-> dev], value |-> value, entry |-> entry]

\* ------------------------------------------------- the diagnostic tool
\* smartctl is an external program.  One run of it is described by whether
\* the process could be started, its exit status, and what it printed:
\* stdout names the text (kind) and the data the text carries (arg).
Chars36MinMax == <<"3", "6", " ", "(", "M", "i", "n", "/", "M", "a", "x", " ", "2", "0", "/", "4", "5", ")">>

Attr(id, value, rawValue, rawString) ==
    [id |-> id, value |-> value, raw |-> [value |-> rawValue, string |-> rawString]]

Identity(dev, type, protocol, serial) ==
    [device |-> [name |-> dev, type |-> type, protocol |-> protocol],
     serial_number |-> serial, firmware_version |-> "82.00A82"]

HealthLog ==
    [temperature |-> 35, available_spare |-> 100, available_spare_threshold |-> 10,
     percentage_used |-> 3, data_units_read |-> 1000, data_units_written |-> 2500,
     host_reads |-> 77, host_writes |-> 99, controller_busy_time |-> 12,
     power_cycles |-> 40, power_on_hours |-> 8760, unsafe_shutdowns |-> 2,
     media_errors |-> 0, num_err_log_entries |-> 5]

\* The kinds of text `smartctl --json --all DEV` prints, by the disk behind DEV.
AtaKinds == {"ata", "ata_failing", "alias", "scsi", "open_error", "bad_temp"}
NvmeKinds == {"nvme", "nvme_short", "open_error"}

\* json.loads(stdout): the JSON document the text of each kind denotes;
\* JSONDecodeError for text that is not JSON.
JsonLoads(stdout) ==
    LET dev == stdout.arg[1] IN
    CASE stdout.kind = "garbage" -> Raise
      [] stdout.kind = "version" ->
           Ret([smartctl |-> [version |-> <<7, 3>>, svn_revision |-> "5338",
                              platform_info |-> "x86_64-linux-6.1", build_info |-> "(local build)"]])
      [] stdout.kind = "scan" ->
           Ret([devices |-> [k \in 1..Len(stdout.arg) |->
                               [name |-> stdout.arg[k], type |-> "auto", protocol |-> "auto"]]])
      \* A healthy ATA disk known to the drive database.
      [] stdout.kind = "ata" ->
           Ret(Identity(dev, "sat", "ATA", "WD-WX11") @@
               [model_family |-> "Western Digital Red",
                wwn |-> [naa |-> 5, oui |-> 5358, id |-> 4660],
                smart_status |-> [passed |-> TRUE],
                ata_smart_attributes |-> [table |->
                   << Attr(1, 200, 0, <<"0">>),
                      Attr(5, 200, 0, <<"0">>),
                      Attr(9, 95, 4321, <<"4", "3", "2", "1">>),
                      Attr(190, 64, 36, <<"3", "6">>),
                      Attr(194, 114, 36, Chars36MinMax),
                      Attr(241, 100, 777, <<"7", "7", "7">>) >>]])
      \* A failing ATA disk absent from the drive database; smartctl sets
      \* bit 3 of its exit status.
      [] stdout.kind = "ata_failing" ->
           Ret(Identity(dev, "sat", "ATA", "ST-0042") @@
               [wwn |-> [naa |-> 5, oui |-> 3152, id |-> 171],
                smart_status |-> [passed |-> FALSE],
                ata_smart_attributes |-> [table |->
                   << Attr(5, 1, 2000, <<"2", "0", "0", "0">>),
                      Attr(197, 100, 8, <<"8">>),
                      Attr(190, 100, 0, <<"0">>) >>]])
      \* An ATA disk that smartctl reports under another name than the one
      \* it was given.
      [] stdout.kind = "alias" ->
           Ret(Identity("/dev/disk/by-id/ata-1", "sat", "ATA", "WD-WX11") @@
               [smart_status |-> [passed |-> TRUE],
                ata_smart_attributes |-> [table |-> << Attr(12, 100, 40, <<"4", "0">>) >>]])
      \* A SCSI disk: neither an NVMe health log nor an ATA attribute table.
      [] stdout.kind = "scsi" ->
           Ret(Identity(dev, "scsi", "SCSI", "SG-7") @@ [smart_status |-> [passed |-> TRUE]])
      \* The device could not be opened: messages only, exit status 2.
      [] stdout.kind = "open_error" ->
           Ret([smartctl |-> [exit_status |-> 2]])
      \* An ATA disk whose attribute 194 has an empty raw string.
      [] stdout.kind = "bad_temp" ->
           Ret(Identity(dev, "sat", "ATA", "WD-WX12") @@
               [smart_status |-> [passed |-> TRUE],
                ata_smart_attributes |-> [table |->
                   << Attr(4, 100, 17, <<"1", "7">>), Attr(194, 100, 0, <<" ">>) >>]])
      [] stdout.kind = "nvme" ->
           Ret(Identity(dev, "nvme", "NVMe", "S4EW") @@
               [smart_status |-> [passed |-> TRUE],
                nvme_smart_health_information_log |-> HealthLog])
      \* An NVMe health log without its last field.
      [] stdout.kind = "nvme_short" ->
           Ret(Identity(dev, "nvme", "NVMe", "S4EX") @@
               [smart_status |-> [passed |-> TRUE],
                nvme_smart_health_information_log |->
                   [k \in DOMAIN HealthLog \ {"num_err_log_entries"} |-> HealthLog[k]]])

\* The exit status smartctl ends with after printing each kind of text.
ExitStatus(kind) ==
    CASE kind = "garbage"     -> 1
      [] kind = "open_error"  -> 2
      [] kind = "ata_failing" -> 8
      [] OTHER                -> 0

NoLaunch == [launched |-> FALSE, exit |-> -1, stdout |-> [kind |-> "none", arg |-> <<>>]]
Ran(kind, arg) == [launched |-> TRUE, exit |-> ExitStatus(kind),
                   stdout |-> [kind |-> kind, arg |-> arg]]

\* smartctl(*flags): subprocess.run raises when the program cannot be
\* started; its return code is not looked at; stdout goes to json.loads.
smartctl(run) == IF ~run.launched THEN Raise ELSE JsonLoads(run.stdout)

\* --------------------------------------------------- collector functions
Has(d, key) == key \in DOMAIN d

\* get_smartctl_version_info(), given the run of `smartctl --json --version`.
get_smartctl_version_info(run) ==
    LET j == smartctl(run) IN
    IF ~j.ok \/ ~Has(j.v, "smartctl") THEN Raise
    ELSE LET d == j.v.smartctl IN
         IF ~(Has(d, "version") /\ Has(d, "svn_revision")
                /\ Has(d, "platform_info") /\ Has(d, "build_info"))
         THEN Raise
         ELSE Ret([version |-> Join(<<".">>, [k \in 1..Len(d.version) |-> ToBase(d.version[k], 10)]),
                   svn_revision |-> d.svn_revision,
                   platform_info |-> d.platform_info,
                   build_info |-> d.build_info])

\* Mutant: a failed scan is taken for "no devices".
get_devices_swallow(run) ==
    LET j == smartctl(run) IN
    IF ~j.ok \/ ~Has(j.v, "devices") THEN Ret(<<>>)
    ELSE Ret([k \in 1..Len(j.v.devices) |-> j.v.devices[k].name])

\* Mutant: the names are de-duplicated.
RECURSIVE Unique(_)
Unique(l) == IF l = <<>> THEN <<>>
             ELSE LET rest == Unique(Tail(l))
                  IN  IF \E k \in 1..Len(rest) : rest[k] = l[1] THEN rest ELSE <<l[1]>> \o rest
get_devices_unique(run) ==
    LET j == smartctl(run) IN
    IF ~j.ok \/ ~Has(j.v, "devices") THEN Raise
    ELSE Ret(Unique([k \in 1..Len(j.v.devices) |-> j.v.devices[k].name]))

\* get_devices(), given the run of `smartctl --json --scan-open`.
get_devices(run) ==
    LET j == smartctl(run) IN
    IF ~j.ok \/ ~Has(j.v, "devices") THEN Raise
    ELSE IF \E k \in 1..Len(j.v.devices) : ~Has(j.v.devices[k], "name") THEN Raise
    ELSE Ret([k \in 1..Len(j.v.devices) |-> j.v.devices[k].name])

\* Mutant: the device label is read from device.type.
get_device_info_wrong_key(device_data) ==
    LET name     == dig(device_data, <<"device", "type">>)
        type     == dig(device_data, <<"device", "type">>)
        protocol == dig(device_data, <<"device", "protocol">>)
        serial   == dig(device_data, <<"serial_number">>)
        naa      == dig(device_data, <<"wwn", "naa">>)
        oui      == dig(device_data, <<"wwn", "oui">>)
        id       == dig(device_data, <<"wwn", "id">>)
        firmware == dig(device_data, <<"firmware_version">>)
        hasWwn   == Has(device_data, "wwn")
    IN  IF ~(name.ok /\ type.ok /\ protocol.ok /\ serial.ok /\ firmware.ok)
           \/ (hasWwn /\ ~(naa.ok /\ oui.ok /\ id.ok))
        THEN Raise
        ELSE LET info == [device |-> name.v, type |-> type.v, protocol |-> protocol.v,
                          serial_number |-> serial.v,
                          wwn |-> IF hasWwn THEN FormatWwn(naa.v, oui.v, id.v) ELSE <<>>,
                          firmware_version |-> firmware.v]
             IN  Ret(IF Has(device_data, "model_family")
                     THEN info @@ [model_family |-> device_data.model_family]
                     ELSE info)

\* Mutant: the world-wide name is formatted without testing for its presence.
get_device_info_unguarded_wwn(device_data) ==
    LET name     == dig(device_data, <<"device", "name">>)
        type     == dig(device_data, <<"device", "type">>)
        protocol == dig(device_data, <<"device", "protocol">>)
        serial   == dig(device_data, <<"serial_number">>)
        naa      == dig(device_data, <<"wwn", "naa">>)
        oui      == dig(device_data, <<"wwn", "oui">>)
        id       == dig(device_data, <<"wwn", "id">>)
        firmware == dig(device_data, <<"firmware_version">>)
    IN  IF ~(name.ok /\ type.ok /\ protocol.ok /\ serial.ok /\ firmware.ok
                /\ naa.ok /\ oui.ok /\ id.ok)
        THEN Raise
        ELSE LET info == [device |-> name.v, type |-> type.v, protocol |-> protocol.v,
                          serial_number |-> serial.v,
                          wwn |-> FormatWwn(naa.v, oui.v, id.v),
                          firmware_version |-> firmware.v]
             IN  Ret(IF Has(device_data, "model_family")
                     THEN info @@ [model_family |-> device_data.model_family]
                     ELSE info)

\* get_device_info(device_data)
get_device_info(device_data) ==
    LET name     == dig(device_data, <<"device", "name">>)
        type     == dig(device_data, <<"device", "type">>)
        protocol == dig(device_data, <<"device", "protocol">>)
        serial   == dig(device_data, <<"serial_number">>)
        naa      == dig(device_data, <<"wwn", "naa">>)
        oui      == dig(device_data, <<"wwn", "oui">>)
        id       == dig(device_data, <<"wwn", "id">>)
        firmware == dig(device_data, <<"firmware_version">>)
        hasWwn   == Has(device_data, "wwn")
    IN  IF ~(name.ok /\ type.ok /\ protocol.ok /\ serial.ok /\ firmware.ok)
           \/ (hasWwn /\ ~(naa.ok /\ oui.ok /\ id.ok))
        THEN Raise
        ELSE LET info == [device |-> name.v,
                          type |-> type.v,
                          protocol |-> protocol.v,
                          serial_number |-> serial.v,
                          wwn |-> IF hasWwn THEN FormatWwn(naa.v, oui.v, id.v) ELSE <<>>,
                          firmware_version |-> firmware.v]
             IN  Ret(IF Has(device_data, "model_family")
                     THEN info @@ [model_family |-> device_data.model_family]
                     ELSE info)

\* The state of a get_device_metrics call between statements: whether an
\* exception is propagating, and the family objects as mutated so far.
Running(fams) == [ok |-> TRUE, fams |-> fams]
Raised(fams) == [ok |-> FALSE, fams |-> fams]

\* for m, path, transform in metrics: m.add_metric([dev], transform(dig(d, path)))
RECURSIVE MetricsLoop(_, _, _, _, _)
MetricsLoop(st, k, d, dev, entry) ==
    IF ~st.ok \/ k > Len(gen_metrics) THEN st
    ELSE LET row == gen_metrics[k]
             x   == dig(d, row.path)
             y   == Transform(row.transform, x.v)
         IN  IF ~x.ok \/ ~y.ok THEN Raised(st.fams)
             ELSE MetricsLoop(
                    Running([st.fams EXCEPT !.gen[k] = Append(@, add_metric(row.m, dev, y.v, entry))]),
                    k + 1, d, dev, entry)

\* for m, key, transform in nvme_metrics:
\*   m.add_metric([dev], transform(d['nvme_smart_health_information_log'][key]))
RECURSIVE NvmeLoop(_, _, _, _, _)
NvmeLoop(st, k, d, dev, entry) ==
    IF ~st.ok \/ k > Len(gen_nvme_metrics) THEN st
    ELSE LET row == gen_nvme_metrics[k]
             x   == dig(d, <<"nvme_smart_health_information_log", row.key>>)
             y   == Transform(row.transform, x.v)
         IN  IF ~x.ok \/ ~y.ok THEN Raised(st.fams)
             ELSE NvmeLoop(
                    Running([st.fams EXCEPT !.nvme[k] = Append(@, add_metric(row.m, dev, y.v, entry))]),
                    k + 1, d, dev, entry)

\* if attr['id'] in attr_metrics
AttrMapped(attr) == attr.id \in DOMAIN gen_attr_metrics

\* for attr in d['ata_smart_attributes']['table']: ...
RECURSIVE AttrLoop(_, _, _, _, _)
AttrLoop(st, k, table, dev, entry) ==
    IF ~st.ok \/ k > Len(table) THEN st
    ELSE LET attr == table[k] IN
         IF ~Has(attr, "id") THEN Raised(st.fams)
         ELSE IF ~AttrMapped(attr) THEN AttrLoop(st, k + 1, table, dev, entry)
         ELSE LET row == gen_attr_metrics[attr.id]
                  x   == dig(attr, row.path)
                  y   == Transform(row.transform, x.v)
              IN  IF ~x.ok \/ ~y.ok THEN Raised(st.fams)
                  ELSE AttrLoop(
                         Running([st.fams EXCEPT !.attr[attr.id] =
                                     Append(@, add_metric(row.m, dev, y.v, entry))]),
                         k + 1, table, dev, entry)

\* Mutant: the branch tests a key smartctl does not print.
IsNvmeWrongKey(d) == Has(d, "nvme_smart_health_information")

\* if 'nvme_smart_health_information_log' in d
IsNvme(d) == Has(d, "nvme_smart_health_information_log")

\* get_device_metrics(dev, info_metric, ..., metrics, attr_metrics, nvme_metrics),
\* given the run of `smartctl --json --all dev` and the family objects.
get_device_metrics(dev, fams, run, entry) ==
    LET j == smartctl(run) IN
    IF ~j.ok THEN Raised(fams)
    ELSE LET d    == j.v
             info == get_device_info(d)
         IN  IF ~info.ok THEN Raised(fams)
             ELSE LET f1 == [fams EXCEPT !.info =
                               Append(@, [name |-> "smartmon_device_info", labels |-> info.v,
                                          value |-> Num(1), entry |-> entry])]
                      s2 == MetricsLoop(Running(f1), 1, d, dev, entry)
                  IN  IF ~s2.ok THEN s2
                      ELSE IF IsNvme(d) THEN NvmeLoop(s2, 1, d, dev, entry)
                      ELSE LET table == dig(d, <<"ata_smart_attributes", "table">>)
                           IN  IF ~table.ok THEN Raised(s2.fams)
                               ELSE AttrLoop(s2, 1, table.v, dev, entry)

\* ------------------------------------------------------------- state
VARIABLES
    disk,      \* the machine: device name -> kind of text `--all` prints for it
    pc,        \* per scrape: where its collect() generator stands
    calls,     \* per scrape: the smartctl runs it made, in order, with their flags
    yielded,   \* per scrape: the metric families collect() has yielded, in order
    famref,    \* per scrape: which family objects its local variables refer to (0: none yet)
    heap,      \* the family objects: reference -> their sample lists
    devs,      \* per scrape: the list get_devices() returned
    idx        \* per scrape: position of the device loop in devs (1-based)

vars == <<disk, pc, calls, yielded, famref, heap, devs, idx>>

DeviceNames == {"/dev/sda", "/dev/nvme0"}

\* The lists `--scan-open` may report: any devices, in any order, a name
\* possibly more than once (one controller, several types).
DeviceLists == UNION {[1..n -> DeviceNames] : n \in 0..MaxDevices}

\* What a run of smartctl can turn out to be, per command line.
VersionRuns == {NoLaunch, Ran("garbage", <<>>), Ran("version", <<>>)}
ScanRuns == {NoLaunch, Ran("garbage", <<>>)} \cup {Ran("scan", l) : l \in DeviceLists}
DeviceRuns(dev) == {NoLaunch, Ran("garbage", <<>>), Ran(disk[dev], <<dev>>)}

Call(flags, run) == [flags |-> flags, run |-> run]

\* Lines 199-203: dev_info_metric and the three tables are constructed anew
\* by every collect() call; no other scrape holds a reference to them.
\* Mutant: the families are module-level objects, constructed once.
AllocShared(h, s) == [ref |-> 1, heap |-> h]
AllocFamilies(h, s) == [ref |-> s, heap |-> [h EXCEPT ![s] = EmptyFamilies]]

\* What `yield` hands to the registry: the family object (by reference).
Item(m, table, key, ref) == [name |-> m.name, type |-> m.type, table |-> table, key |-> key, ref |-> ref]

\* Mutant: the loop leaves one iteration early.
LoopDoneOffByOne(s) == idx[s] >= Len(devs[s])

\* Line 205: the for loop ends when the list is exhausted.
LoopDone(s) == idx[s] > Len(devs[s])

\* Mutant: the loop body yields dev_info_metric after each device.
LoopBodyYieldsInfo(ref) == <<Item(Family("info", "smartmon_device"), "info", 0, ref)>>

\* Lines 205-206: the loop body calls get_device_metrics and yields nothing.
LoopBodyYields(ref) == <<>>

Init ==
    /\ disk \in {d \in [DeviceNames -> AtaKinds \cup NvmeKinds] :
                    d["/dev/sda"] \in AtaKinds /\ d["/dev/nvme0"] \in NvmeKinds}
    /\ pc = [s \in Scrapes |-> "start"]
    /\ calls = [s \in Scrapes |-> <<>>]
    /\ yielded = [s \in Scrapes |-> <<>>]
    /\ famref = [s \in Scrapes |-> 0]
    /\ heap = [r \in Scrapes |-> EmptyFamilies]
    /\ devs = [s \in Scrapes |-> <<>>]
    /\ idx = [s \in Scrapes |-> 1]

\* Line 188: yield InfoMetricFamily('smartmon', ..., get_smartctl_version_info())
Version(s) ==
    /\ pc[s] = "start"
    /\ \E run \in VersionRuns :
         LET info == get_smartctl_version_info(run) IN
         /\ calls' = [calls EXCEPT ![s] = Append(@, Call(<<"--version">>, run))]
         /\ IF info.ok
            THEN /\ yielded' = [yielded EXCEPT ![s] =
                       Append(@, Item(Family("info", "smartmon"), "version", 0, 0) @@ [info |-> info.v])]
                 /\ pc' = [pc EXCEPT ![s] = "scan"]
            ELSE /\ yielded' = yielded
                 /\ pc' = [pc EXCEPT ![s] = "fault"]
    /\ UNCHANGED <<disk, famref, heap, devs, idx>>

\* Lines 190-205: construct the families, then evaluate get_devices().
Scan(s) ==
    /\ pc[s] = "scan"
    /\ \E run \in ScanRuns :
         LET a == AllocFamilies(heap, s)
             l == get_devices(run)
         IN  /\ famref' = [famref EXCEPT ![s] = a.ref]
             /\ heap' = a.heap
             /\ calls' = [calls EXCEPT ![s] = Append(@, Call(<<"--scan-open">>, run))]
             /\ IF l.ok
                THEN /\ devs' = [devs EXCEPT ![s] = l.v]
                     /\ idx' = [idx EXCEPT ![s] = 1]
                     /\ pc' = [pc EXCEPT ![s] = "loop"]
                ELSE /\ UNCHANGED <<devs, idx>>
                     /\ pc' = [pc EXCEPT ![s] = "fault"]
    /\ UNCHANGED <<disk, yielded>>

\* Lines 205-206: one iteration of the device loop.
Device(s) ==
    /\ pc[s] = "loop"
    /\ ~LoopDone(s)
    /\ LET dev == devs[s][idx[s]] IN
       \E run \in DeviceRuns(dev) :
         LET st == get_device_metrics(dev, heap[famref[s]], run, idx[s]) IN
         /\ calls' = [calls EXCEPT ![s] = Append(@, Call(<<"--all", dev>>, run))]
         /\ heap' = [heap EXCEPT ![famref[s]] = st.fams]
         /\ IF st.ok
            THEN /\ idx' = [idx EXCEPT ![s] = @ + 1]
                 /\ yielded' = [yielded EXCEPT ![s] = @ \o LoopBodyYields(famref[s])]
                 /\ pc' = pc
            ELSE /\ idx' = idx
                 /\ yielded' = yielded
                 /\ pc' = [pc EXCEPT ![s] = "fault"]
    /\ UNCHANGED <<disk, famref, devs>>

\* Line 208: yield dev_info_metric
YieldDevInfo(s) ==
    /\ pc[s] = "loop"
    /\ LoopDone(s)
    /\ yielded' = [yielded EXCEPT ![s] =
          Append(@, Item(Family("info", "smartmon_device"), "info", 0, famref[s]))]
    /\ pc' = [pc EXCEPT ![s] = "yield_metrics"]
    /\ UNCHANGED <<disk, calls, famref, heap, devs, idx>>

\* Line 209: yield from (x[0] for x in metrics)
YieldMetrics(s) ==
    /\ pc[s] = "yield_metrics"
    /\ yielded' = [yielded EXCEPT ![s] =
          @ \o [k \in 1..Len(gen_metrics) |-> Item(gen_metrics[k].m, "gen", k, famref[s])]]
    /\ pc' = [pc EXCEPT ![s] = "yield_attr"]
    /\ UNCHANGED <<disk, calls, famref, heap, devs, idx>>

\* Line 210: yield from (x[0] for x in attr_metrics.values())
YieldAttr(s) ==
    /\ pc[s] = "yield_attr"
    /\ yielded' = [yielded EXCEPT ![s] =
          @ \o [k \in 1..Len(AttrOrder) |->
                  Item(gen_attr_metrics[AttrOrder[k]].m, "attr", AttrOrder[k], famref[s])]]
    /\ pc' = [pc EXCEPT ![s] = "yield_nvme"]
    /\ UNCHANGED <<disk, calls, famref, heap, devs, idx>>

\* Line 211: yield from (x[0] for x in nvme_metrics); the generator returns.
YieldNvme(s) ==
    /\ pc[s] = "yield_nvme"
    /\ yielded' = [yielded EXCEPT ![s] =
          @ \o [k \in 1..Len(gen_nvme_metrics) |-> Item(gen_nvme_metrics[k].m, "nvme", k, famref[s])]]
    /\ pc' = [pc EXCEPT ![s] = "done"]
    /\ UNCHANGED <<disk, calls, famref, heap, devs, idx>>

\* The registry is done with a scrape (served or failed) and calls collect()
\* for the next request: a new generator, whose locals are unset; the
\* objects only the finished one referred to are garbage.
NextScrape(s) ==
    /\ pc[s] \in {"done", "fault"}
    /\ pc' = [pc EXCEPT ![s] = "start"]
    /\ calls' = [calls EXCEPT ![s] = <<>>]
    /\ yielded' = [yielded EXCEPT ![s] = <<>>]
    /\ heap' = IF famref[s] = 0 THEN heap ELSE [heap EXCEPT ![famref[s]] = EmptyFamilies]
    /\ famref' = [famref EXCEPT ![s] = 0]
    /\ devs' = [devs EXCEPT ![s] = <<>>]
    /\ idx' = [idx EXCEPT ![s] = 1]
    /\ UNCHANGED disk

Next ==
    \E s \in Scrapes :
        \/ Version(s)
        \/ Scan(s)
        \/ Device(s)
        \/ YieldDevInfo(s)
        \/ YieldMetrics(s)
        \/ YieldAttr(s)
        \/ YieldNvme(s)
        \/ NextScrape(s)

Spec == Init /\ [][Next]_vars

\* ================================================================ claims
\* The device calls of scrape s are calls[s][3..]; entry e of the device
\* loop made call e + 2.
DeviceEntries(s) == 1..(Len(calls[s]) - 2)
RunOf(s, e) == calls[s][e + 2].run
\* Iteration e of the device loop of s returned without raising.
Completed(s, e) == e < idx[s]
\* The family objects scrape s refers to.
Fams(s) == heap[famref[s]]

\* Texts the code cannot map: not JSON, or JSON without a field it reads.
UnusableKinds == {"garbage", "open_error", "scsi", "nvme_short", "bad_temp"}
\* A run that failed to start or printed text the code cannot parse and map.
ToolFailed(run) == ~run.launched \/ run.stdout.kind \in UnusableKinds
\* A run that failed in the sense of the process: not started, or a
\* nonzero exit status.
ProcessFailed(run) == ~run.launched \/ run.exit # 0

\* C1 (as amended): a run of smartctl that cannot be started, or whose output
\* is not JSON or lacks a field the code reads, faults the scrape at once:
\* it is the last run of the scrape, the scrape is in the fault state, and
\* so a scrape that completed made no such run.  (A nonzero exit status by
\* itself is not such a failure.)
C1_FailurePropagates ==
    \A s \in Scrapes : \A k \in 1..Len(calls[s]) :
        ToolFailed(calls[s][k].run) => (k = Len(calls[s]) /\ pc[s] = "fault")

\* C1 witness: a scrape whose second device query failed is in the fault state.
C1_Witness ==
    \E s \in Scrapes :
        /\ pc[s] = "fault"
        /\ Len(calls[s]) = 4
        /\ ToolFailed(calls[s][4].run)
        /\ ~ToolFailed(calls[s][3].run)

\* C1 as stated: collect() never completes normally in a scrape in which one
\* of its tool invocations failed, a subprocess that exits with a nonzero
\* status included.
C1_AsStated ==
    \A s \in Scrapes :
        pc[s] = "done" =>
            \A k \in 1..Len(calls[s]) :
                ~ToolFailed(calls[s][k].run) /\ ~ProcessFailed(calls[s][k].run)

\* C2 (as amended): a scrape that ends in a fault has yielded no device-level
\* family and no device sample: nothing when the version query faulted, and
\* otherwise only the tool-version info family.
C2_FaultYieldsOnlyVersion ==
    \A s \in Scrapes :
        pc[s] = "fault" =>
            /\ \A k \in 1..Len(yielded[s]) :
                  yielded[s][k].table = "version" /\ yielded[s][k].ref = 0
            /\ Len(yielded[s]) = (IF Len(calls[s]) = 1 THEN 0 ELSE 1)

\* C2 witness: a scrape faulted in its second device query, after the first
\* device's samples had been added to the (never yielded) families.
C2_Witness ==
    \E s \in Scrapes :
        /\ pc[s] = "fault"
        /\ Len(calls[s]) = 4
        /\ Len(Fams(s).info) >= 1
        /\ Len(yielded[s]) = 1

\* C2 as stated: a scrape that ends in a fault has yielded no metric family.
C2_AsStated ==
    \A s \in Scrapes : pc[s] = "fault" => yielded[s] = <<>>

\* The family objects that result from the device calls of a scrape alone,
\* starting from newly constructed families.
RECURSIVE Replay(_, _, _)
Replay(log, e, fams) ==
    IF e + 2 > Len(log) THEN fams
    ELSE Replay(log, e + 1,
                get_device_metrics(log[e + 2].flags[2], fams, log[e + 2].run, e).fams)

\* C3: whatever other scrapes ran before or run meanwhile, the family objects
\* of a scrape hold exactly the samples computed from the tool outputs that
\* scrape read; it yields no family object of another scrape and shares none
\* with a live one; every sample belongs to a device of its own enumeration.
C3_ScrapesIsolated ==
    \A s \in Scrapes :
        /\ famref[s] # 0 =>
              /\ Fams(s) = Replay(calls[s], 1, EmptyFamilies)
              /\ \A t \in Scrapes \ {s} : famref[t] # famref[s]
              /\ \A k \in 1..Len(Fams(s).info) :
                    Fams(s).info[k].entry \in 1..Len(devs[s])
        /\ \A k \in 1..Len(yielded[s]) : yielded[s][k].ref \in {0, famref[s]}

\* C3 witness: one scrape has completed with samples while the other, which
\* enumerated other devices, is inside its device loop with samples of its own.
C3_Witness ==
    /\ pc[1] = "done" /\ Len(Fams(1).info) = 2
    /\ pc[2] = "loop" /\ Len(Fams(2).info) = 1
    /\ devs[1] # devs[2]
    /\ devs[2] = <<"/dev/nvme0", "/dev/nvme0">>

\* C4: the runs of a scrape are, in order, the version query, the device scan
\* and one query per enumerated device in the order of the enumeration, none
\* repeated: while in the loop the scrape has made idx + 1 runs, and a
\* completed scrape over n devices has made exactly n + 2.
C4_InvocationOrder ==
    \A s \in Scrapes :
        /\ \A k \in 1..Len(calls[s]) :
              calls[s][k].flags = (IF k = 1 THEN <<"--version">>
                                   ELSE IF k = 2 THEN <<"--scan-open">>
                                   ELSE <<"--all", devs[s][k - 2]>>)
        /\ pc[s] \in {"loop", "yield_metrics", "yield_attr", "yield_nvme", "done"} =>
              /\ devs[s] = calls[s][2].run.stdout.arg
              /\ Len(calls[s]) = idx[s] + 1
        /\ pc[s] \in {"yield_metrics", "yield_attr", "yield_nvme", "done"} =>
              Len(calls[s]) = Len(devs[s]) + 2

\* C4 witness: a completed scrape over two entries of the same device name.
C4_Witness ==
    \E s \in Scrapes :
        /\ pc[s] = "done"
        /\ devs[s] = <<"/dev/sda", "/dev/sda">>
        /\ Len(calls[s]) = 4

\* The JSON document scrape s read for entry e of its device loop.
DocOf(s, e) == JsonLoads(RunOf(s, e).stdout).v
\* Entry e's run printed JSON.
ReadJson(s, e) == RunOf(s, e).launched /\ RunOf(s, e).stdout.kind # "garbage"
\* The samples entry e added to one family.
OfEntry(samples, e) == LET FromE(x) == x.entry = e IN SelectSeq(samples, FromE)
\* Every sample of the general, ATA-attribute and NVMe families of s.
MappedSamples(s) ==
    UNION ( {{Fams(s).gen[k][n] : n \in 1..Len(Fams(s).gen[k])} : k \in DOMAIN Fams(s).gen}
      \cup  {{Fams(s).attr[k][n] : n \in 1..Len(Fams(s).attr[k])} : k \in DOMAIN Fams(s).attr}
      \cup  {{Fams(s).nvme[k][n] : n \in 1..Len(Fams(s).nvme[k])} : k \in DOMAIN Fams(s).nvme} )
InfoSamples(s) == {Fams(s).info[n] : n \in 1..Len(Fams(s).info)}

\* C5 (as amended): every sample of a general, ATA-attribute or NVMe family
\* carries exactly the label device, whose value is the name under which the
\* device was enumerated in the same scrape; the device label of a
\* device-info sample is the name smartctl reports in device.name of that
\* device's own output.
C5_DeviceLabel ==
    \A s \in Scrapes :
        famref[s] # 0 =>
            /\ \A x \in MappedSamples(s) :
                  DOMAIN x.labels = {"device"} /\ x.labels.device = devs[s][x.entry]
            /\ \A x \in InfoSamples(s) :
                  x.labels.device = DocOf(s, x.entry).device.name

\* C5 witness: a completed scrape over two devices, with mapped samples and
\* a device-info sample for each.
C5_Witness ==
    \E s \in Scrapes :
        /\ pc[s] = "done"
        /\ devs[s] = <<"/dev/sda", "/dev/nvme0">>
        /\ Len(Fams(s).info) = 2
        /\ Len(Fams(s).gen[1]) = 2
        /\ Fams(s).info[1].labels.device # "/dev/sda"

\* C5 as stated: the device label of every sample, the device-info sample
\* included, is the name under which the device was enumerated.
C5_AsStated ==
    \A s \in Scrapes :
        famref[s] # 0 =>
            \A x \in MappedSamples(s) \cup InfoSamples(s) :
                x.labels.device = devs[s][x.entry]

RequiredInfoLabels == {"device", "type", "protocol", "serial_number", "firmware_version", "wwn"}

\* C6: a device-info sample always has the labels device, type, protocol,
\* serial_number, firmware_version and wwn and, besides them, at most
\* model_family; model_family is present exactly when the output has a model
\* family, wwn is the empty string exactly when the output has no world-wide
\* name; and an output that has the other fields gets its device-info sample
\* whether or not it has those two.
C6_DeviceInfoLabels ==
    \A s \in Scrapes :
        famref[s] # 0 =>
            /\ \A x \in InfoSamples(s) :
                  LET d == DocOf(s, x.entry) IN
                  /\ RequiredInfoLabels \subseteq DOMAIN x.labels
                  /\ DOMAIN x.labels \subseteq RequiredInfoLabels \cup {"model_family"}
                  /\ ("model_family" \in DOMAIN x.labels) <=> ("model_family" \in DOMAIN d)
                  /\ ("model_family" \in DOMAIN d) => x.labels.model_family = d.model_family
                  /\ (x.labels.wwn = <<>>) <=> ("wwn" \notin DOMAIN d)
            /\ \A e \in DeviceEntries(s) :
                  (ReadJson(s, e)
                     /\ {"device", "serial_number", "firmware_version"} \subseteq DOMAIN DocOf(s, e))
                  => Len(OfEntry(Fams(s).info, e)) = 1

\* C6 witness: a completed scrape holds the device-info sample of a disk
\* with model family and world-wide name (formatted 5 0014ee 000001234) and
\* that of a disk with neither.
C6_Witness ==
    \E s \in Scrapes :
        /\ pc[s] = "done"
        /\ Len(Fams(s).info) = 2
        /\ "model_family" \in DOMAIN Fams(s).info[1].labels
        /\ Fams(s).info[1].labels.wwn =
              <<"5", " ", "0", "0", "1", "4", "e", "e", " ", "0", "0", "0", "0", "0", "1", "2", "3", "4">>
        /\ "model_family" \notin DOMAIN Fams(s).info[2].labels
        /\ Fams(s).info[2].labels.wwn = <<>>

MappedAttrIds == {4, 5, 9, 10, 12, 187, 188, 190, 193, 194, 196, 197, 198}
HealthLogKeys ==
    {"temperature", "available_spare", "available_spare_threshold", "percentage_used",
     "data_units_read", "data_units_written", "host_reads", "host_writes",
     "controller_busy_time", "power_cycles", "power_on_hours", "unsafe_shutdowns",
     "media_errors", "num_err_log_entries"}
HasHealthLog(d) == "nvme_smart_health_information_log" \in DOMAIN d
\* The entries of an ATA attribute table that have the given id.
WithId(table, id) == LET IsId(a) == a.id = id IN SelectSeq(table, IsId)

\* C7: there are 13 ATA-attribute and 14 NVMe families.  A device whose
\* output has the NVMe health log never gets a sample in an ATA-attribute
\* family, and with all 14 fields in the log it gets exactly one sample in
\* each NVMe family.  A device without the log never gets a sample in an
\* NVMe family, and once its iteration has returned it has, in the family of
\* each mapped id, one sample per table entry with that id; the entries with
\* other ids add nothing and do not fault the iteration.
C7_NvmeAtaExclusive ==
    \A s \in Scrapes :
        famref[s] # 0 =>
            /\ DOMAIN Fams(s).attr = MappedAttrIds /\ Cardinality(MappedAttrIds) = 13
            /\ DOMAIN Fams(s).nvme = 1..14
            /\ \A e \in DeviceEntries(s) :
                  ReadJson(s, e) =>
                    LET d == DocOf(s, e) IN
                    IF HasHealthLog(d)
                    THEN /\ \A id \in MappedAttrIds : OfEntry(Fams(s).attr[id], e) = <<>>
                         /\ HealthLogKeys \subseteq DOMAIN d.nvme_smart_health_information_log
                              => \A k \in 1..14 : Len(OfEntry(Fams(s).nvme[k], e)) = 1
                    ELSE /\ \A k \in 1..14 : OfEntry(Fams(s).nvme[k], e) = <<>>
                         /\ Completed(s, e) =>
                              \A id \in MappedAttrIds :
                                 Len(OfEntry(Fams(s).attr[id], e))
                                    = Len(WithId(d.ata_smart_attributes.table, id))

\* C7 witness: a completed scrape over an NVMe device and an ATA disk whose
\* table has entries with unmapped ids (1 and 241).
C7_Witness ==
    \E s \in Scrapes :
        /\ pc[s] = "done"
        /\ devs[s] = <<"/dev/nvme0", "/dev/sda">>
        /\ disk["/dev/sda"] = "ata"
        /\ Len(Fams(s).nvme[14]) = 1
        /\ Len(Fams(s).attr[194]) = 1

\* The exact value n, and whether value v is the exact quotient x / 100.
Val(n) == [num |-> n, den |-> 1]
IsHundredth(v, x) == v.den > 0 /\ v.num * 100 = x * v.den
DataUnitKeys == {"data_units_read", "data_units_written"}
RatioKeys == {"available_spare", "available_spare_threshold", "percentage_used"}
\* The values of a sequence of samples.
Values(samples) == [n \in 1..Len(samples) |-> samples[n].value]

\* What C8 expects of the sample made from field x of the health log.
NvmeAmended(key, v, x) ==
    IF key \in DataUnitKeys THEN v = Val(x * 512000)
    ELSE IF key \in RatioKeys THEN IsHundredth(v, x)
    ELSE v = Val(x)
NvmeAsStated(key, v, x) ==
    IF key \in DataUnitKeys THEN v = Val(x * 512000) ELSE v = Val(x)

\* The values of C8 for scrape s, with the NVMe fields as amended or as stated.
ValuesMatch(s, amended) ==
    \A e \in DeviceEntries(s) :
        ReadJson(s, e) =>
          LET d == DocOf(s, e) IN
          /\ \A n \in 1..Len(OfEntry(Fams(s).gen[1], e)) :
                OfEntry(Fams(s).gen[1], e)[n].value
                   = (IF d.smart_status.passed THEN Val(1) ELSE Val(0))
          /\ \A k \in 1..14 : \A n \in 1..Len(OfEntry(Fams(s).nvme[k], e)) :
                LET key == nvme_rows[k].key
                    v   == OfEntry(Fams(s).nvme[k], e)[n].value
                    x   == d.nvme_smart_health_information_log[key]
                IN  IF amended THEN NvmeAmended(key, v, x) ELSE NvmeAsStated(key, v, x)
          /\ (Completed(s, e) /\ ~HasHealthLog(d)) =>
                \A id \in MappedAttrIds \ {194} :
                   LET rows == WithId(d.ata_smart_attributes.table, id) IN
                   Values(OfEntry(Fams(s).attr[id], e))
                      = [n \in 1..Len(rows) |->
                           IF id = 190 THEN Val(100 - rows[n].value)
                           ELSE Val(rows[n].raw.value)]

\* C8 (as amended): smartmon_smart_healthy is 1 when smart_status.passed is
\* true and 0 when it is false; ATA attribute 190 yields 100 minus its
\* normalized value; NVMe data_units_read and data_units_written yield the
\* unit count times 512000; NVMe available_spare, available_spare_threshold
\* and percentage_used yield the field divided by 100; every other
\* integer-valued mapped field is emitted unchanged.
C8_MappedValues ==
    \A s \in Scrapes : famref[s] # 0 => ValuesMatch(s, TRUE)

\* C8 witness: a completed scrape over a failing ATA disk (attribute 190
\* with normalized value 100, raw values 2000 and 8) and an NVMe device
\* (1000 data units read, available spare 100).
C8_Witness ==
    \E s \in Scrapes :
        /\ pc[s] = "done"
        /\ devs[s] = <<"/dev/sda", "/dev/nvme0">>
        /\ Values(Fams(s).gen[1]) = <<Val(0), Val(1)>>
        /\ Values(Fams(s).attr[190]) = <<Val(0)>>
        /\ Values(Fams(s).attr[5]) = <<Val(2000)>>
        /\ Values(Fams(s).nvme[5]) = <<Val(512000000)>>
        /\ Values(Fams(s).nvme[2]) = <<Val(1)>>
        /\ Values(Fams(s).nvme[4]) = <<[num |-> 3, den |-> 100]>>

\* C8 as stated: apart from smart_status.passed, attribute 190 and the two
\* data-unit fields, every integer-valued mapped field is emitted unchanged.
C8_AsStated ==
    \A s \in Scrapes : famref[s] # 0 => ValuesMatch(s, FALSE)

\* The names of the families a completed scrape yields, in order.
ExpectedNames ==
    << "smartmon", "smartmon_device", "smartmon_smart_healthy",
       "smartmon_starts_stops_total", "smartmon_reallocated_sectors_total",
       "smartmon_power_on_hours", "smartmon_spin_retries_total",
       "smartmon_power_cycles_total", "smartmon_reported_uncorrectable_errors_total",
       "smartmon_command_timeouts_total", "smartmon_airflow_temperature_celsius",
       "smartmon_load_cycles_total", "smartmon_temperature_celsius",
       "smartmon_reallocated_events_total", "smartmon_current_pending_sectors",
       "smartmon_offline_uncorrectable_sectors_total",
       "smartmon_temperature_celsius", "smartmon_nvme_available_spare_ratio",
       "smartmon_nvme_available_spare_threshold_ratio", "smartmon_nvme_used_ratio",
       "smartmon_nvme_data_units_read_bytes", "smartmon_nvme_data_units_written_bytes",
       "smartmon_nvme_host_reads", "smartmon_nvme_host_writes",
       "smartmon_nvme_controller_busy_time", "smartmon_power_cycles_total",
       "smartmon_power_on_hours", "smartmon_nvme_unsafe_shutdowns",
       "smartmon_nvme_media_errors", "smartmon_nvme_num_err_log_entries" >>
\* The table a family at position k of that sequence belongs to.
ExpectedTable(k) ==
    IF k = 1 THEN "version" ELSE IF k = 2 THEN "info" ELSE IF k = 3 THEN "gen"
    ELSE IF k <= 16 THEN "attr" ELSE "nvme"

\* C9: what a scrape has yielded is always a prefix of one fixed sequence of
\* 30 families (tool version, device info, the general family, 13
\* ATA-attribute families, 14 NVMe families), a completed scrape has yielded
\* all of it whatever devices exist, and when a device-level family is
\* yielded every enumerated device has been queried and has its device-info
\* sample in place.
C9_YieldOrder ==
    \A s \in Scrapes :
        /\ Len(yielded[s]) <= Len(ExpectedNames)
        /\ \A k \in 1..Len(yielded[s]) :
              /\ yielded[s][k].name = ExpectedNames[k]
              /\ yielded[s][k].table = ExpectedTable(k)
              /\ k > 1 =>
                    /\ Len(calls[s]) = Len(devs[s]) + 2
                    /\ \A e \in 1..Len(devs[s]) :
                          Completed(s, e) /\ Len(OfEntry(Fams(s).info, e)) = 1
        /\ pc[s] = "done" => Len(yielded[s]) = 30

\* C9 witness: one scrape completed over no device and the other over two,
\* both with all 30 families yielded.
C9_Witness ==
    /\ pc[1] = "done" /\ devs[1] = <<>> /\ Len(yielded[1]) = 30
    /\ pc[2] = "done" /\ Len(devs[2]) = 2 /\ Len(yielded[2]) = 30

\* C10 as stated: within one scrape no two families yielded by collect()
\* have the same metric name.
C10_UniqueNames ==
    \A s \in Scrapes :
        \A j, k \in 1..Len(yielded[s]) :
            j # k => yielded[s][j].name # yielded[s][k].name
============================================================================
